---- MODULE Spec2Model ----
(***************************************************************************)
(* Model of Core/Astronomy/Astronomy.py, class Calculations: the pointing  *)
(* and scan planning engine of the radio telescope controller.             *)
(*                                                                         *)
(* Representation of the program's numbers:                                *)
(*   - angles are integers counted in units of 1/UnitsPerDegree of a       *)
(*     degree (1/240 degree, the angle the sidereal clock of line 92       *)
(*     turns through in one second at 15 degrees per hour);                *)
(*   - motor distances are integers counted in steps;                      *)
(*   - durations are integers counted in ticks of 1/MAX_STEP_FREQUENCY of  *)
(*     a second, so that distance / MAX_STEP_FREQUENCY is exact;           *)
(*   - a 6-field date is the tuple <<year, month, day, hour, minute,       *)
(*     second>>; a 3-field date is <<year, month, dd>> where the decimal   *)
(*     day dd is the record [whole |-> day, frac |-> k]: day plus          *)
(*     k ticks * SEC_TO_DAY.                                               *)
(***************************************************************************)
EXTENDS Integers, Sequences, FiniteSets, TLC

VARIABLES clock, location_lon, observer_date, pc, op, args, result

vars == <<clock, location_lon, observer_date, pc, op, args, result>>

-----------------------------------------------------------------------------
(* Program constants.                                                      *)

MOTOR_RA_STEPS_PER_DEGREE == 2880

MOTOR_DEC_STEPS_PER_DEGREE == 10000

MAX_STEP_FREQUENCY == 200

(* Angle units in a degree: 3600 seconds of sidereal time turn 15 degrees. *)
UnitsPerDegree == 3600 \div 15

FullCircle == 360 * UnitsPerDegree

SecondsPerDay == 24 * 3600

(* Bounds of the model.                                                    *)

MaxDay == 2

MaxOffsetK == 1

MaxCells == 4

Abs(x) == IF x < 0 THEN -x ELSE x

Max(a, b) == IF a >= b THEN a ELSE b

(* Python's int(): truncation toward zero of the quotient n / d, d > 0.    *)
IntTrunc(n, d) == IF n >= 0 THEN n \div d ELSE -((-n) \div d)

(* math.floor of the quotient n / d for n >= 0 and d # 0.                  *)
FloorDiv(n, d) == IF d > 0 THEN n \div d ELSE -((n + (-d) - 1) \div (-d))

-----------------------------------------------------------------------------
(* Dates.                                                                  *)

(* The instants the wall clock may show when an operation reads it.        *)
Clocks ==
    { <<2024, 6, d, t[1], t[2], t[3]>> :
        d \in 1..MaxDay,
        t \in {<<0, 0, 0>>, <<13, 30, 45>>, <<23, 59, 59>>} }

(* Seconds from the start of the month to a 6-field date.                  *)
SecondsIntoMonth(date) ==
    (date[3] - 1) * SecondsPerDay + date[4] * 3600 + date[5] * 60 + date[6]

(* The 6-field date of an instant given in seconds from the month start.   *)
DateOfSeconds(y, m, t) ==
    <<y, m, 1 + t \div SecondsPerDay, (t % SecondsPerDay) \div 3600,
      (t % 3600) \div 60, t % 60>>

(* k ticks * SEC_TO_DAY, counted in whole units of `unit` ticks.           *)
(* SEC_TO_DAY = 1.1574074e-5 is 6.4e-9 short of 1/86400 in relative terms, *)
(* so k ticks scale to slightly less than k ticks of a day: an exact       *)
(* multiple of the unit falls just below it (60 s become 0.99999999 min).  *)
SecToDayWhole(k, unit) == IF k = 0 THEN 0 ELSE (k - 1) \div unit

(* The decoding of a 3-field date shared by hour_angle and                 *)
(* hour_angle_to_ra: the second field is int(fraction) * 60, always 0.     *)
DecodeDate(date) ==
    IF Len(date) = 3
    THEN LET k == date[3].frac
             day == date[3].whole
                    + SecToDayWhole(k, SecondsPerDay * MAX_STEP_FREQUENCY)
             hour == SecToDayWhole(k, 3600 * MAX_STEP_FREQUENCY) % 24
             minute == SecToDayWhole(k, 60 * MAX_STEP_FREQUENCY) % 60
             second == 0 * 60
         IN  <<date[1], date[2], day, hour, minute, second>>
    ELSE date

(* Calculations.current_time() with its defaults: the wall clock as a      *)
(* 6-field date.                                                           *)
current_time(now) == now

-----------------------------------------------------------------------------
(* Library functions, represented on the integer grid.                     *)

(* skyfield's Greenwich apparent sidereal time, as an angle (gast * 15):   *)
(* the sidereal clock gains one second in every 365 on the solar clock.    *)
GastAngle(date) ==
    LET t == SecondsIntoMonth(date)
    IN  (250 * UnitsPerDegree + t + t \div 365) % FullCircle

(* astropy's FK5 frames differ by the precession of the equinox.  The      *)
(* transform between J2000 and the equinox of date is the precession       *)
(* rotation, represented here by its leading terms for the epoch of the    *)
(* clock:  ra' = ra + m + n sin(ra) tan(dec),  dec' = dec + n cos(ra),     *)
(* m and n the precession in right ascension and in declination since     *)
(* J2000, in angle units.                                                  *)
PrecessionM == 75

PrecessionN == 33

(* Sines are kept in units of 1 / SinScale.                                *)
SinScale == 100000

HalfTurn == FullCircle \div 2

(* sin of an angle h of the first half turn H, in angle units:             *)
(* 16 h (H - h) / (5 H^2 - 4 h (H - h)).                                   *)
HalfTurnSine(h) ==
    (h * (HalfTurn - h))
        \div ((5 * (HalfTurn \div 4) * (HalfTurn \div 4) - (h * (HalfTurn - h)) \div 4)
                  \div SinScale)

(* sin of any angle: that of its place in the half turn, negated in the    *)
(* second half turn.                                                       *)
SinScaled(a) ==
    HalfTurnSine(a % HalfTurn) * (IF a % FullCircle < HalfTurn THEN 1 ELSE -1)

CosScaled(a) == SinScaled(a + FullCircle \div 4)

(* tan of a declination, in thousandths.                                   *)
TanMilli(dec) == IntTrunc(SinScaled(dec) * 1000, CosScaled(dec))

(* n sin(ra) tan(dec)                                                      *)
PrecessionTerm(ra, dec) ==
    IntTrunc(IntTrunc(PrecessionN * SinScaled(ra), 100) * TanMilli(dec),
             SinScale * 10)

(* n cos(ra)                                                               *)
PrecessionInDec(ra) == IntTrunc(PrecessionN * CosScaled(ra), SinScale)

(* J2000 to the equinox of date.                                           *)
RaJNow(ra, dec) == (ra + PrecessionM + PrecessionTerm(ra, dec)) % FullCircle

DecJNow(ra, dec) == dec + PrecessionInDec(ra)

(* The equinox of date to J2000: the rotation back, the position (ra, dec) *)
(* of date being the image of the J2000 position this finds by iterating   *)
(* on the right ascension.                                                 *)
RaJ2000(ra, dec) ==
    LET back(r) == ra - PrecessionM - PrecessionTerm(r, dec - PrecessionInDec(r))
    IN  back(back(back(ra - PrecessionM))) % FullCircle

(* pyephem's astrometric position (a_ra, a_dec) of a body at an instant    *)
(* given in seconds from the month start: every body moves with time.      *)
BodyNames == {"Sun", "Jupiter", "Mars", "Venus", "Moon"}

BodyRaRate(name) ==
    CASE name = "Sun" -> 10 [] name = "Moon" -> 132 [] name = "Mars" -> 7
      [] name = "Venus" -> 12 [] name = "Jupiter" -> 2 [] OTHER -> 1

BodyRa0(name) ==
    CASE name = "Sun" -> 69 * UnitsPerDegree [] name = "Moon" -> 5 * UnitsPerDegree
      [] name = "Mars" -> 20 * UnitsPerDegree [] name = "Venus" -> 66 * UnitsPerDegree
      [] name = "Jupiter" -> 62 * UnitsPerDegree [] OTHER -> 300 * UnitsPerDegree

BodyPosition(name, t) ==
    [ra  |-> (BodyRa0(name) + (BodyRaRate(name) * t) \div 3600) % FullCircle,
     dec |-> 20 * UnitsPerDegree - (BodyRaRate(name) * t) \div 7200]

-----------------------------------------------------------------------------
(* Calculations.hour_angle                                                 *)

hour_angle_added(lon, object_ra, object_dec, date) ==
    GastAngle(DecodeDate(date)) + lon + RaJNow(object_ra, object_dec)

hour_angle(lon, object_ra, object_dec, date) ==
    LET date6 == DecodeDate(date)
        ra_jnow == RaJNow(object_ra, object_dec)
        local_sidereal_time == GastAngle(date6) + lon
    IN  local_sidereal_time - ra_jnow

-----------------------------------------------------------------------------
(* Calculations.hour_angle_to_ra: object_dec is used as the declination of *)
(* the position of date that is transformed back to J2000.                 *)

hour_angle_to_ra(lon, object_ha, object_dec, date) ==
    LET date6 == DecodeDate(date)
        local_sidereal_time == GastAngle(date6) + lon
        calculated_ra == local_sidereal_time - object_ha
    IN  RaJ2000(calculated_ra % FullCircle, object_dec)

-----------------------------------------------------------------------------
(* MotorStepModel arithmetic shared by transit and transit_planetary.      *)

(* cur_ha * MOTOR_RA_STEPS_PER_DEGREE, cur_ha in angle units.              *)
RaSteps(ha) == (ha * MOTOR_RA_STEPS_PER_DEGREE) \div UnitsPerDegree

(* obj_dec * MOTOR_DEC_STEPS_PER_DEGREE, obj_dec in angle units (exact for *)
(* the declinations of the model, multiples of 3 units).                   *)
DecSteps(dec) ==
    IF dec >= 0 THEN (dec * MOTOR_DEC_STEPS_PER_DEGREE) \div UnitsPerDegree
    ELSE -(((-dec) * MOTOR_DEC_STEPS_PER_DEGREE) \div UnitsPerDegree)

step_distance(stp_to_home, angle_steps) == Abs(stp_to_home + angle_steps)

sum_distance(step_distance_ra, step_distance_dec) ==
    step_distance_ra + step_distance_dec

max_distance(step_distance_ra, step_distance_dec) ==
    Max(step_distance_ra, step_distance_dec)

(* Ticks in a second: one tick is the time of one step at full speed.      *)
TicksPerSecond == MAX_STEP_FREQUENCY

(* max_distance / MAX_STEP_FREQUENCY seconds, counted in ticks.            *)
max_move_time(distance) ==
    (distance * TicksPerSecond) \div MAX_STEP_FREQUENCY

(* (cur_time[0], cur_time[1], cur_time[2] + (max_move_time + transit_time) *)
(*  * SEC_TO_DAY): the day field of the clock plus the scaled advance.     *)
target_time(cur_time, move_ticks, transit_time) ==
    <<cur_time[1], cur_time[2],
      [whole |-> cur_time[3],
       frac  |-> move_ticks + transit_time * TicksPerSecond]>>

-----------------------------------------------------------------------------
(* Calculations.transit                                                    *)

transit(now, lon, obj_ra, obj_dec, stp_to_home_ra, stp_to_home_dec, transit_time) ==
    LET cur_time == current_time(now)
        cur_ha == hour_angle(lon, obj_ra, obj_dec, cur_time)
        step_distance_ra == step_distance(stp_to_home_ra, RaSteps(cur_ha))
        step_distance_dec == step_distance(stp_to_home_dec, DecSteps(obj_dec))
        move == max_move_time(max_distance(step_distance_ra, step_distance_dec))
        tgt == target_time(cur_time, move, transit_time)
        target_ha == hour_angle(lon, obj_ra, obj_dec, tgt)
    IN  [outcome |-> "ok",
         value |-> <<target_ha, obj_dec>>,
         cur_time |-> cur_time,
         cur_ha |-> cur_ha,
         step_distance_ra |-> step_distance_ra,
         step_distance_dec |-> step_distance_dec,
         max_move_time |-> move,
         transit_time |-> transit_time,
         eval_date |-> DecodeDate(tgt)]

-----------------------------------------------------------------------------
(* Planetary bodies.  The argument objec is [kind, name]: kind "str" for a *)
(* name given as a string, kind "ephem" for a pyephem body object.         *)

EphemBody(name) == [kind |-> "ephem", name |-> name]

(* The if/elif chain of lines 205-214 and 260-269: it has no else branch.  *)
select_body(objec) ==
    IF objec = [kind |-> "str", name |-> "Sun"] THEN EphemBody("Sun")
    ELSE IF objec = [kind |-> "str", name |-> "Jupiter"] THEN EphemBody("Jupiter")
    ELSE IF objec = [kind |-> "str", name |-> "Mars"] THEN EphemBody("Mars")
    ELSE IF objec = [kind |-> "str", name |-> "Venus"] THEN EphemBody("Venus")
    ELSE IF objec = [kind |-> "str", name |-> "Moon"] THEN EphemBody("Moon")
    ELSE objec

(* "%.0f/%.0f/%.6f" % (year, month, day + add): a date string, its day     *)
(* fraction rounded to six decimals (micro-days).                          *)
format_date(cur_time, microdays) ==
    <<cur_time[1], cur_time[2], [whole |-> cur_time[3], micro |-> microdays]>>

(* The instant pyephem reads from a date string, in seconds from the month *)
(* start (whole seconds).                                                  *)
SecondsOfDateString(ds) ==
    (ds[3].whole - 1) * SecondsPerDay + (ds[3].micro * 864) \div 10000

(* The instant of the second objec.compute of transit_planetary (line 233) *)
recompute_instant(cur_time, tgt) == SecondsIntoMonth(cur_time)

(* Calculations.transit_planetary                                          *)
transit_planetary(now, lon, objec0, stp_to_home_ra, stp_to_home_dec, transit_time) ==
    LET objec == select_body(objec0)
        cur_time == current_time(now)
    IN  IF objec.kind # "ephem"
        THEN [outcome |-> "AttributeError"]
        ELSE
        LET first == BodyPosition(objec.name, SecondsIntoMonth(cur_time))
            cur_ha == hour_angle(lon, first.ra, first.dec, cur_time)
            step_distance_ra == step_distance(stp_to_home_ra, RaSteps(cur_ha))
            step_distance_dec == step_distance(stp_to_home_dec, DecSteps(first.dec))
            move == max_move_time(max_distance(step_distance_ra, step_distance_dec))
            tgt == target_time(cur_time, move, transit_time)
            again == BodyPosition(objec.name, recompute_instant(cur_time, tgt))
            target_ha == hour_angle(lon, again.ra, again.dec, tgt)
        IN  [outcome |-> "ok",
             value |-> <<target_ha, again.dec>>,
             cur_time |-> cur_time,
             cur_ha |-> cur_ha,
             cur_dec |-> first.dec,
             step_distance_ra |-> step_distance_ra,
             step_distance_dec |-> step_distance_dec,
             max_move_time |-> move,
             transit_time |-> transit_time,
             obj_ra |-> again.ra,
             obj_dec |-> again.dec,
             eval_date |-> DecodeDate(tgt)]

(* The date string of the next sample, set at the end of iteration `count`  *)
(* (line 286): the day field of the clock plus 0.04166666667.              *)
next_comp_date(cur_time, count) == format_date(cur_time, 41667)

(* comp_date as iteration `count` of the loop of lines 276-286 reads it.   *)
comp_date_at(cur_time, count) ==
    IF count = 0 THEN format_date(cur_time, 0)
    ELSE next_comp_date(cur_time, count - 1)

(* sum_ra (sum_dec) after iteration `count`: the differences cur - prev    *)
(* of iterations 1..count; vals[k + 1] is the sample of iteration k.       *)
RECURSIVE sum_differences(_, _)
sum_differences(vals, count) ==
    IF count = 0 THEN 0
    ELSE sum_differences(vals, count - 1) + (vals[count + 1] - vals[count])

(* Calculations.tracking_planetary.  A rate is the pair <<n, d>>: n angle  *)
(* units in d seconds.                                                     *)
tracking_planetary(now, lon, objec0, stp_to_home_ra, stp_to_home_dec) ==
    LET transit_coords ==
            transit_planetary(now, lon, objec0, stp_to_home_ra, stp_to_home_dec, 0)
        objec == select_body(objec0)
        cur_time == current_time(now)
        samples == [k \in 1..24 |->
                       SecondsOfDateString(comp_date_at(cur_time, k - 1))]
        ras == [k \in 1..24 |-> BodyPosition(objec.name, samples[k]).ra]
        decs == [k \in 1..24 |-> BodyPosition(objec.name, samples[k]).dec]
        count == 24 - 1
        fin == [sum_ra |-> sum_differences(ras, count),
                sum_dec |-> sum_differences(decs, count),
                count |-> count, samples |-> samples, ras |-> ras, decs |-> decs]
    IN  IF transit_coords.outcome # "ok"
        THEN transit_coords
        ELSE [outcome |-> "ok",
              value |-> <<transit_coords.value[1], transit_coords.value[2],
                          <<fin.sum_ra, fin.count * 3600>>,
                          <<fin.sum_dec, fin.count * 3600>> >>,
              first_call |-> transit_coords,
              samples |-> fin.samples,
              sample_ras |-> fin.ras,
              sample_decs |-> fin.decs,
              count |-> fin.count]

-----------------------------------------------------------------------------
(* Calculations.coordinate_transform                                       *)

(* The library conversions to right ascension and declination, called with *)
(* (position[1], position[0]); each is a change of frame, not the          *)
(* identity: a shift of the longitude and a tilt of the latitude.          *)
Tilt(lat, by) ==
    LET t == lat + by
    IN  IF t > 90 * UnitsPerDegree THEN 180 * UnitsPerDegree - t
        ELSE IF t < -90 * UnitsPerDegree THEN -180 * UnitsPerDegree - t
        ELSE t

radec_of(az, alt) ==
    <<(az + 100 * UnitsPerDegree) % FullCircle, Tilt(alt, 38 * UnitsPerDegree)>>

galactic_to_radec(lon, lat) ==
    <<(lon + 266 * UnitsPerDegree) % FullCircle, Tilt(lat, -29 * UnitsPerDegree)>>

ecliptic_to_radec(lon, lat) ==
    <<(lon + 1) % FullCircle, Tilt(lat, 23 * UnitsPerDegree)>>

(* The epoch written to self.observer.date (lines 479-483): the 6 fields   *)
(* of the clock reading, or the one name of a named epoch.                 *)
transform_epoch(now, system_and_date) ==
    IF system_and_date[2] = "Now" THEN current_time(now) ELSE <<system_and_date[2]>>

(* The value returned (lines 485-496): the else branch takes every other   *)
(* frame tag and returns the coordinates as they came.                     *)
coordinate_transform(coordinates, system_and_date) ==
    IF system_and_date[1] = "Horizontal"
    THEN radec_of(coordinates[2], coordinates[1])
    ELSE IF system_and_date[1] = "Galactic"
    THEN galactic_to_radec(coordinates[2], coordinates[1])
    ELSE IF system_and_date[1] = "Ecliptic"
    THEN ecliptic_to_radec(coordinates[2], coordinates[1])
    ELSE coordinates

-----------------------------------------------------------------------------
(* Calculations.scanning_map_generator                                     *)

Directions ==
    {"R-Down", "R-Up", "L-Down", "L-Up", "Up-R", "Up-L", "Down-R", "Down-L"}

(* The corners chosen by the direction (lines 311-354), as indexes into    *)
(* points, with the second_axis flag.                                      *)
select_corners(direct) ==
    IF direct = "R-Down" THEN [initial |-> 1, second |-> 2, third |-> 3, second_axis |-> FALSE]
    ELSE IF direct = "R-Up" THEN [initial |-> 4, second |-> 3, third |-> 2, second_axis |-> FALSE]
    ELSE IF direct = "L-Down" THEN [initial |-> 2, second |-> 1, third |-> 4, second_axis |-> FALSE]
    ELSE IF direct = "L-Up" THEN [initial |-> 3, second |-> 4, third |-> 1, second_axis |-> FALSE]
    ELSE IF direct = "Up-R" THEN [initial |-> 4, second |-> 1, third |-> 2, second_axis |-> TRUE]
    ELSE IF direct = "Up-L" THEN [initial |-> 3, second |-> 2, third |-> 1, second_axis |-> TRUE]
    ELSE IF direct = "Down-R" THEN [initial |-> 1, second |-> 4, third |-> 3, second_axis |-> TRUE]
    ELSE IF direct = "Down-L" THEN [initial |-> 2, second |-> 3, third |-> 4, second_axis |-> TRUE]
    ELSE [initial |-> 0, second |-> 0, third |-> 0, second_axis |-> FALSE]

(* Lines 356-357.                                                          *)
num_boxes_x(initial_point, second_point, step_size) ==
    FloorDiv(Abs(second_point[1] - initial_point[1]), step_size[1])

num_boxes_y(second_point, third_point, step_size) ==
    FloorDiv(Abs(second_point[2] - third_point[2]), step_size[2])

initial_fill_forward(initial_point, second_point, axis) ==
    IF second_point[axis] - initial_point[axis] < 0 THEN TRUE ELSE FALSE

(* Lines 367-370 and 388-391: the flag before the first row.               *)
initial_fill_reverse(initial_point, second_point, axis) ==
    IF second_point[axis] - initial_point[axis] < 0 THEN FALSE ELSE TRUE

RECURSIVE inner_fill_always_moving(_, _, _, _, _, _, _, _)
inner_fill_always_moving(axis, i, j, n_inner, fill_reverse, point, step_size, raw) ==
    IF j >= n_inner THEN <<point, raw>>
    ELSE LET moved ==
                 IF fill_reverse
                 THEN [point EXCEPT ![axis] = @ - step_size[axis]]
                 ELSE [point EXCEPT ![axis] = @ + step_size[axis]]
         IN  inner_fill_always_moving(axis, i, j + 1, n_inner, fill_reverse, moved,
                                      step_size, Append(raw, moved))

(* The inner loops (lines 377-386 and 398-407) from iteration j on: the    *)
(* point moves along `axis` (1 is x, 2 is y) and is appended to raw.       *)
RECURSIVE inner_fill(_, _, _, _, _, _, _, _)
inner_fill(axis, i, j, n_inner, fill_reverse, point, step_size, raw) ==
    IF j >= n_inner THEN <<point, raw>>
    ELSE LET moved ==
                 IF ~(j = 0 /\ i # 0)
                 THEN IF fill_reverse
                      THEN [point EXCEPT ![axis] = @ - step_size[axis]]
                      ELSE [point EXCEPT ![axis] = @ + step_size[axis]]
                 ELSE point
         IN  inner_fill(axis, i, j + 1, n_inner, fill_reverse, moved, step_size,
                        Append(raw, moved))

(* The outer loops (lines 372-375 and 393-396) from iteration i on: the    *)
(* other axis steps down after the first row and the flag is negated.      *)
RECURSIVE outer_fill(_, _, _, _, _, _, _, _)
outer_fill(axis, i, n_outer, n_inner, fill_reverse, point, step_size, raw) ==
    IF i >= n_outer THEN raw
    ELSE LET other == 3 - axis
             stepped == IF i # 0
                        THEN [point EXCEPT ![other] = @ - step_size[other]]
                        ELSE point
             row == inner_fill(axis, i, 0, n_inner, ~fill_reverse, stepped,
                               step_size, raw)
         IN  outer_fill(axis, i + 1, n_outer, n_inner, ~fill_reverse, row[1],
                        step_size, row[2])

scanning_map_generator(points, step_size, direct) ==
    LET epoch == points[6]
        coord_system == points[5]
        c == select_corners(direct)
    IN  IF c.initial = 0 THEN [outcome |-> "UnboundLocalError"]
        ELSE IF step_size[1] = 0 \/ step_size[2] = 0
        THEN [outcome |-> "ZeroDivisionError"]
        ELSE
        LET initial_point == points[c.initial]
            second_point == points[c.second]
            third_point == points[c.third]
            nx == num_boxes_x(initial_point, second_point, step_size)
            ny == num_boxes_y(second_point, third_point, step_size)
            raw_points ==
                IF ~c.second_axis
                THEN outer_fill(1, 0, ny, nx,
                                initial_fill_reverse(initial_point, second_point, 1),
                                initial_point, step_size, <<initial_point>>)
                ELSE outer_fill(2, 0, nx, ny,
                                initial_fill_reverse(initial_point, second_point, 2),
                                initial_point, step_size, <<initial_point>>)
            map_points ==
                [k \in 1..Len(raw_points) |->
                    coordinate_transform(raw_points[k], <<coord_system, epoch>>)]
        IN  [outcome |-> "ok",
             value |-> <<map_points, raw_points>>,
             initial_point |-> initial_point,
             second_point |-> second_point,
             third_point |-> third_point,
             second_axis |-> c.second_axis,
             num_boxes_x |-> nx,
             num_boxes_y |-> ny]

-----------------------------------------------------------------------------
(* Calculations.scanning_point_calculator                                  *)

NoBody == [kind |-> "none", name |-> ""]

(* Lines 453-456.  int_time is counted in 1/IntTimeDen of a minute, so     *)
(* int_time * 60.0 is the quotient (int_time * 60) / IntTimeDen.           *)
IntTimeDen == 2 * 60

tr_time_unscaled(int_time) ==
    IF IntTrunc(int_time, IntTimeDen) # 0
    THEN IntTrunc(int_time, IntTimeDen)
    ELSE 0

tr_time(int_time) ==
    IF IntTrunc(int_time * 60, IntTimeDen) # 0
    THEN IntTrunc(int_time * 60, IntTimeDen)
    ELSE 0

(* step_size[axis] * MOTOR_..._STEPS_PER_DEGREE, step_size in angle units. *)
RaIncrement(step_size) == (step_size[1] * MOTOR_RA_STEPS_PER_DEGREE) \div UnitsPerDegree

DecIncrement(step_size) == DecSteps(step_size[2])

next_step_incr_looking_back(map_points, i, step_incr, step_size) ==
    <<IF map_points[i][1] # map_points[i - 1][1]
      THEN step_incr[1] + RaIncrement(step_size) ELSE step_incr[1],
      IF map_points[i][2] # map_points[i - 1][2]
      THEN step_incr[2] + DecIncrement(step_size) ELSE step_incr[2]>>

(* Lines 444-450: the offsets of point i (1 is the first point); reading   *)
(* the point after the last raises IndexError before either increment.     *)
next_step_incr(map_points, i, step_incr, step_size) ==
    IF i + 1 > Len(map_points) THEN step_incr
    ELSE <<IF map_points[i][1] # map_points[i + 1][1]
           THEN step_incr[1] + RaIncrement(step_size) ELSE step_incr[1],
           IF map_points[i][2] # map_points[i + 1][2]
           THEN step_incr[2] + DecIncrement(step_size) ELSE step_incr[2]>>

(* One predictor call of the planner, as the planner sees it.              *)
PlannerCall(fn, point, stp, wait, res) ==
    [fn |-> fn, point |-> point, stp_ra |-> stp[1], stp_dec |-> stp[2],
     wait |-> wait, outcome |-> res.outcome,
     value |-> IF res.outcome = "ok" THEN <<res.value[1], res.value[2]>> ELSE <<>>]

(* The value of a one-element set: its element.  The planner binds the     *)
(* offsets and the result of each predictor call through one, so that each *)
(* is computed once, as the assignments of the code are.                   *)
TheOne(S) == CHOOSE x \in S : TRUE

(* The loop of lines 443-464 from point i on (i = 2 is map_points[1]).     *)
RECURSIVE planner_loop(_, _, _, _, _, _, _, _, _)
planner_loop(now, lon, map_points, i, step_incr, step_size, int_time, objec, calls) ==
    IF i > Len(map_points) THEN calls
    ELSE TheOne({
         LET wait == tr_time(int_time)
         IN  TheOne({
             IF call.outcome # "ok" THEN Append(calls, call)
             ELSE planner_loop(now, lon, map_points, i + 1, incr, step_size,
                               int_time, objec, Append(calls, call)) :
             call \in {
                 IF objec = NoBody
                 THEN PlannerCall("transit", i, incr, wait,
                          transit(now, lon, map_points[i][1], map_points[i][2],
                                  incr[1], incr[2], wait))
                 ELSE PlannerCall("transit_planetary", i, incr, wait,
                          transit_planetary(now, lon, objec, incr[1], incr[2], wait)) } }) :
         incr \in { next_step_incr(map_points, i, step_incr, step_size) } })

scanning_point_calculator(now, lon, map_points, init_steps, step_size, int_time, objec) ==
    LET first_point ==
            IF objec = NoBody
            THEN PlannerCall("transit", 1, init_steps, 0,
                     transit(now, lon, map_points[1][1], map_points[1][2],
                             init_steps[1], init_steps[2], 0))
            ELSE PlannerCall("transit_planetary", 1, init_steps, 0,
                     transit_planetary(now, lon, objec, init_steps[1], init_steps[2], 0))
        roc == IF objec = NoBody THEN <<0, 0>>
               ELSE LET t == tracking_planetary(now, lon, objec,
                                                init_steps[1], init_steps[2])
                    IN  IF t.outcome = "ok" THEN <<t.value[3], t.value[4]>> ELSE <<>>
    IN  TheOne({
        IF calls[Len(calls)].outcome # "ok"
        THEN [outcome |-> calls[Len(calls)].outcome, calls |-> calls]
        ELSE [outcome |-> "ok",
              value |-> <<[k \in 1..Len(calls) |-> calls[k].value], roc>>,
              calls |-> calls] :
        calls \in { TheOne({
            IF first.outcome # "ok" THEN <<first>>
            ELSE planner_loop(now, lon, map_points, 2, init_steps, step_size,
                              int_time, objec, <<first>>) :
            first \in {first_point} }) } })

-----------------------------------------------------------------------------
(* State machine.                                                          *)

SiteLongitudes ==
    {-180 * UnitsPerDegree, 95 * (UnitsPerDegree \div 4), 180 * UnitsPerDegree}

RightAscensions == {0, 180 * UnitsPerDegree, FullCircle - 1}

Declinations == {-30 * UnitsPerDegree, 0, 45 * UnitsPerDegree}

(* Motor offsets from home, in steps.                                      *)
Offsets == { k * 120000 : k \in (-MaxOffsetK)..MaxOffsetK }

(* Extra waits handed to the predictors, in seconds.                       *)
Waits == {0, 1, 59, 60, 90}

NoResult == [outcome |-> "none"]

Done(name) == pc = "done" /\ op = name

Ok(name) == Done(name) /\ result.outcome = "ok"

Init ==
    /\ clock \in Clocks
    /\ location_lon \in SiteLongitudes
    /\ observer_date = <<"construction">>
    /\ pc = "idle"
    /\ op = "init"
    /\ args = <<>>
    /\ result = NoResult

(* The wall clock moves on between two operations.                         *)
Tick ==
    /\ pc = "idle"
    /\ \E c \in Clocks :
          /\ SecondsIntoMonth(c) > SecondsIntoMonth(clock)
          /\ clock' = c
    /\ UNCHANGED <<location_lon, observer_date, pc, op, args, result>>

(* The caller takes the result; the engine is ready for the next call.     *)
Return ==
    /\ pc = "done"
    /\ pc' = "idle"
    /\ op' = "init"
    /\ args' = <<>>
    /\ result' = NoResult
    /\ UNCHANGED <<clock, location_lon, observer_date>>

(* Targets of hour_angle: the targets above, and right ascension 45       *)
(* degrees and declination 85 degrees.                                     *)
TargetRightAscensions == RightAscensions \cup {45 * UnitsPerDegree}

TargetDeclinations == Declinations \cup {85 * UnitsPerDegree}

CallHourAngle ==
    /\ pc = "idle"
    /\ \E ra \in TargetRightAscensions, dec \in TargetDeclinations :
           /\ op' = "hour_angle"
           /\ args' = <<ra, dec, current_time(clock)>>
           /\ result' = [outcome |-> "ok",
                         value |-> hour_angle(location_lon, ra, dec, current_time(clock))]
    /\ pc' = "done"
    /\ UNCHANGED <<clock, location_lon, observer_date>>

(* The caller converts the hour angle it has just got back to a right     *)
(* ascension, with the same declination and the same date; the right       *)
(* ascension it started from is kept beside the value.                     *)
CallHourAngleToRa ==
    /\ Ok("hour_angle")
    /\ op' = "hour_angle_to_ra"
    /\ args' = <<result.value, args[2], args[3]>>
    /\ result' = [outcome |-> "ok",
                  value |-> hour_angle_to_ra(location_lon, result.value, args[2], args[3]),
                  object_ra |-> args[1]]
    /\ UNCHANGED <<clock, location_lon, observer_date, pc>>

CallTransit ==
    /\ pc = "idle"
    /\ \E ra \in RightAscensions, dec \in Declinations,
          sr \in Offsets, sd \in Offsets, w \in Waits :
           /\ op' = "transit"
           /\ args' = <<ra, dec, sr, sd, w>>
           /\ result' = transit(clock, location_lon, ra, dec, sr, sd, w)
    /\ pc' = "done"
    /\ UNCHANGED <<clock, location_lon, observer_date>>

CallTransitAgainLater ==
    /\ Done("transit")
    /\ \E c \in Clocks :
           /\ SecondsIntoMonth(c) > SecondsIntoMonth(clock)
           /\ clock' = c
           /\ LET r == transit(c, location_lon, args[1], args[2], args[3], args[4], args[5])
              IN  result' = [outcome |-> r.outcome, value |-> r.value,
                             first |-> result.value, cur_time |-> r.cur_time]
    /\ op' = "transit_again"
    /\ UNCHANGED <<location_lon, observer_date, pc, args>>

(* The caller repeats its transit call with the same target, offsets and   *)
(* wait while current_time() still returns the same instant; the value of  *)
(* the first call is kept beside the value of the second.                  *)
CallTransitAgain ==
    /\ Done("transit")
    /\ LET r == transit(clock, location_lon, args[1], args[2], args[3], args[4], args[5])
       IN  result' = [outcome |-> r.outcome, value |-> r.value,
                      first |-> result.value, cur_time |-> r.cur_time]
    /\ op' = "transit_again"
    /\ UNCHANGED <<clock, location_lon, observer_date, pc, args>>

(* Body arguments: the five names, an unknown name, a pyephem object.      *)
Bodies ==
    { [kind |-> "str", name |-> n] : n \in BodyNames \cup {"Saturn"} }
    \cup {EphemBody("Saturn")}

CallTransitPlanetary ==
    /\ pc = "idle"
    /\ \E b \in Bodies, sr \in Offsets, sd \in Offsets, w \in Waits :
           /\ op' = "transit_planetary"
           /\ args' = <<b, sr, sd, w>>
           /\ result' = transit_planetary(clock, location_lon, b, sr, sd, w)
    /\ pc' = "done"
    /\ UNCHANGED <<clock, location_lon, observer_date>>

CallTrackingPlanetary ==
    /\ pc = "idle"
    /\ \E b \in Bodies, sr \in Offsets, sd \in Offsets :
           /\ op' = "tracking_planetary"
           /\ args' = <<b, sr, sd>>
           /\ result' = tracking_planetary(clock, location_lon, b, sr, sd)
    /\ pc' = "done"
    /\ UNCHANGED <<clock, location_lon, observer_date>>

FrameTags == {"Equatorial", "Horizontal", "Galactic", "Ecliptic", "Supergalactic"}

Epochs == {"Now", "J2000"}

(* Coordinates handed to coordinate_transform: the second one is beyond    *)
(* the declination range.                                                  *)
TransformInputs ==
    {<<40 * UnitsPerDegree, 10 * UnitsPerDegree>>,
     <<40 * UnitsPerDegree, 95 * UnitsPerDegree>>,
     <<0, 0>>}

CallCoordinateTransform ==
    /\ pc = "idle"
    /\ \E c \in TransformInputs, f \in FrameTags, e \in Epochs :
           /\ op' = "coordinate_transform"
           /\ args' = <<c, <<f, e>> >>
           /\ observer_date' = transform_epoch(clock, <<f, e>>)
           /\ result' = [outcome |-> "ok",
                         value |-> coordinate_transform(c, <<f, e>>)]
    /\ pc' = "done"
    /\ UNCHANGED <<clock, location_lon>>

(* Scan boxes: the corners of an axis-aligned box in the order top left,   *)
(* top right, bottom right, bottom left, with the frame tag and the epoch. *)
CellSize == UnitsPerDegree \div 4

BoxSides == {0, CellSize * MaxCells, CellSize * 2 + CellSize \div 2}

ScanBox(x, y, w, h, frame, epoch) ==
    <<<<x, y>>, <<x + w, y>>, <<x + w, y - h>>, <<x, y - h>>, frame, epoch>>

(* A box whose right side is pushed down by k and whose bottom side is     *)
(* pushed right by k; k = 0 is the axis-aligned box.                       *)
SkewBox(x, y, w, h, k, frame, epoch) ==
    <<<<x, y>>, <<x + w, y>>, <<x + w + k, y - h - k>>, <<x + k, y - h>>, frame, epoch>>

Skews == {0, CellSize * 2}

ScanFrames == {<<"Equatorial", "J2000">>, <<"Galactic", "Now">>}

StepSizes ==
    {<<CellSize, CellSize>>, <<CellSize, 100>>, <<0, CellSize>>,
     <<CellSize, 0>>, <<-CellSize, CellSize>>, <<CellSize, -CellSize>>}

CallScanningMapGenerator ==
    /\ pc = "idle"
    /\ \E w \in BoxSides, h \in BoxSides, k \in Skews, f \in ScanFrames,
          st \in StepSizes, d \in Directions \cup {"Around"} :
           LET box == SkewBox(10 * UnitsPerDegree, 20 * UnitsPerDegree, w, h, k, f[1], f[2])
               r == scanning_map_generator(box, st, d)
           IN  /\ op' = "scanning_map_generator"
               /\ args' = <<box, st, d>>
               /\ result' = r
               /\ observer_date' = IF r.outcome = "ok"
                                   THEN transform_epoch(clock, <<f[1], f[2]>>)
                                   ELSE observer_date
    /\ pc' = "done"
    /\ UNCHANGED <<clock, location_lon>>

(* Grids handed to the planner: maps the generator returns.                *)
PlannerGrids ==
    { scanning_map_generator(
          ScanBox(10 * UnitsPerDegree, 20 * UnitsPerDegree, b[1], b[2],
                  "Equatorial", "J2000"),
          <<CellSize, CellSize>>, b[3]).value[1] :
        b \in {<<CellSize * 2, CellSize * 2, "R-Down">>,
               <<CellSize * MaxCells, CellSize, "L-Down">>,
               <<CellSize, CellSize * 2, "Down-R">>} }
    \cup { scanning_map_generator(
               ScanBox(10 * UnitsPerDegree, 20 * UnitsPerDegree, CellSize * 2,
                       CellSize * 2, "Galactic", "Now"),
               <<CellSize, CellSize>>, "R-Down").value[1] }

(* Integration times, in 1/IntTimeDen of a minute.                         *)
IntTimes == {0, 1, IntTimeDen - 1, IntTimeDen, IntTimeDen + IntTimeDen \div 2}

PlannerBodies ==
    {NoBody, [kind |-> "str", name |-> "Moon"], [kind |-> "str", name |-> "Saturn"]}

CallScanningPointCalculator ==
    /\ pc = "idle"
    /\ \E g \in PlannerGrids, sr \in Offsets, it \in IntTimes, b \in PlannerBodies :
           /\ op' = "scanning_point_calculator"
           /\ args' = <<g, <<sr, 0>>, <<CellSize, CellSize>>, it, b>>
           /\ result' = scanning_point_calculator(clock, location_lon, g, <<sr, 0>>,
                                                  <<CellSize, CellSize>>, it, b)
    /\ pc' = "done"
    /\ UNCHANGED <<clock, location_lon, observer_date>>

Next ==
    \/ Tick
    \/ Return
    \/ CallHourAngle
    \/ CallHourAngleToRa
    \/ CallTransit
    \/ CallTransitAgain
    \/ CallTransitPlanetary
    \/ CallTrackingPlanetary
    \/ CallCoordinateTransform
    \/ CallScanningMapGenerator
    \/ CallScanningPointCalculator

Spec == Init /\ [][Next]_vars

(* The predictors and the planner: nothing here writes the observer.       *)
NextPredict ==
    \/ Tick
    \/ Return
    \/ CallHourAngle
    \/ CallHourAngleToRa
    \/ CallTransit
    \/ CallTransitAgain
    \/ CallTransitPlanetary
    \/ CallTrackingPlanetary
    \/ CallScanningPointCalculator

SpecPredict == Init /\ [][NextPredict]_vars

(* The frame converter and the scan path generator, at one site and one    *)
(* injected instant per behaviour.                                         *)
InitScan == Init /\ location_lon = 95 * (UnitsPerDegree \div 4)

NextScan ==
    \/ Return
    \/ CallCoordinateTransform
    \/ CallScanningMapGenerator

SpecScan == InitScan /\ [][NextScan]_vars

-----------------------------------------------------------------------------
(* Properties.                                                             *)

(* The instant a predictor should evaluate at: the clock it read plus the  *)
(* slew duration plus the extra wait, in whole seconds from the month      *)
(* start.                                                                  *)
AdvancedInstant(r) ==
    SecondsIntoMonth(r.cur_time)
    + (r.max_move_time + r.transit_time * TicksPerSecond) \div TicksPerSecond

(* C1: transit evaluates the returned hour angle at the instant T + S + W, *)
(* T the clock read with its hour, minute and second, S the slew duration  *)
(* and W the extra wait.                                                   *)
C1_TransitEvaluatesAtAdvancedInstant ==
    Ok("transit") =>
        /\ SecondsIntoMonth(result.eval_date) = AdvancedInstant(result)
        /\ result.value[1] =
               hour_angle(location_lon, args[1], args[2],
                          DateOfSeconds(clock[1], clock[2], AdvancedInstant(result)))

(* C2: transit_planetary returns the hour angle and declination of the     *)
(* body's ephemeris position at the advanced instant, not of its position  *)
(* at the current instant.                                                 *)
C2_PlanetaryUsesAdvancedEphemeris ==
    Ok("transit_planetary") =>
        LET pos == BodyPosition(select_body(args[1]).name, AdvancedInstant(result))
        IN  /\ result.obj_ra = pos.ra
            /\ result.value[2] = pos.dec

(* C3: tracking_planetary samples the body at the 24 distinct instants     *)
(* t0 + k hours, k = 0..23, t0 the current instant, and divides the sum of *)
(* the 23 differences by 23.                                               *)
C3_TrackingSamplesHourly ==
    Ok("tracking_planetary") =>
        /\ \A k \in 1..24 :
               result.samples[k] = SecondsIntoMonth(clock) + (k - 1) * 3600
        /\ result.value[3][2] = 23 * 3600
        /\ result.value[4][2] = 23 * 3600

(* The four sides of a box are parallel to the axes.                       *)
AxisAligned(box) ==
    /\ box[1][2] = box[2][2]
    /\ box[3][2] = box[4][2]
    /\ box[1][1] = box[4][1]
    /\ box[2][1] = box[3][1]

(* C4: for each of the 8 directions on an axis-aligned box of width W and  *)
(* height H with positive steps, the generator counts floor(W / step_x)    *)
(* and floor(H / step_y) steps and the first raw point is the direction's  *)
(* initial corner.                                                         *)
C4_StepCountsFollowTheBox ==
    (Ok("scanning_map_generator") /\ AxisAligned(args[1])
        /\ args[2][1] > 0 /\ args[2][2] > 0) =>
        LET box == args[1]
            w == Abs(box[2][1] - box[1][1])
            h == Abs(box[1][2] - box[4][2])
        IN  (w > 0 /\ h > 0) =>
                /\ result.num_boxes_x = w \div args[2][1]
                /\ result.num_boxes_y = h \div args[2][2]
                /\ result.value[2][1] = box[select_corners(args[3]).initial]

(* C5: the planner passes an extra wait of 0 for the first trajectory      *)
(* point and of floor(integration_minutes * 60) seconds for every later    *)
(* point, with and without a planetary body.                               *)
C5_PlannerWaits ==
    Done("scanning_point_calculator") =>
        \A k \in 1..Len(result.calls) :
            result.calls[k].wait =
                IF k = 1 THEN 0 ELSE (args[4] * 60) \div IntTimeDen

C5_Witness ==
    /\ Ok("scanning_point_calculator")
    /\ args[5] # NoBody
    /\ args[4] = IntTimeDen
    /\ Len(result.calls) > 2
    /\ result.calls[1].wait = 0
    /\ result.calls[3].wait = 60

(* C6: a body identifier that is not one of Sun, Moon, Mars, Venus,        *)
(* Jupiter makes transit_planetary and tracking_planetary fail with        *)
(* UnsupportedBodyError.                                                   *)
C6_UnknownBodyIsUnsupportedBodyError ==
    ((Done("transit_planetary") \/ Done("tracking_planetary"))
        /\ args[1].kind = "str" /\ args[1].name \notin BodyNames) =>
        result.outcome = "UnsupportedBodyError"

(* C7: scanning_map_generator reports InvalidScanBoxError and returns no   *)
(* grid when a step size is not strictly positive or the grid extent is    *)
(* zero on either axis.                                                    *)
C7_InvalidScanBoxIsReported ==
    (Done("scanning_map_generator") /\ args[3] \in Directions) =>
        LET c == select_corners(args[3])
            zero_extent ==
                \/ args[1][c.second][1] = args[1][c.initial][1]
                \/ args[1][c.second][2] = args[1][c.third][2]
        IN  (args[2][1] <= 0 \/ args[2][2] <= 0 \/ zero_extent) =>
                result.outcome = "InvalidScanBoxError"

(* C8: coordinate_transform reports FrameConversionError for a frame tag   *)
(* that is not supported or a declination outside [-90, 90] degrees.       *)
C8_BadFrameIsFrameConversionError ==
    (Done("coordinate_transform")
        /\ (\/ args[2][1] \notin {"Equatorial", "Horizontal", "Galactic", "Ecliptic"}
            \/ Abs(args[1][2]) > 90 * UnitsPerDegree)) =>
        result.outcome = "FrameConversionError"

(* C9 as stated: the hour angle returned never lies outside [-360, 360]    *)
(* degrees.                                                                *)
C9_HourAngleWithinOneTurn ==
    Ok("hour_angle") => Abs(result.value) <= 360 * UnitsPerDegree

(* C9 amended: the hour angle returned is not normalized: it never lies    *)
(* outside [-540, 540] degrees and can lie outside [-360, 360].            *)
C9_HourAngleWithinOneAndAHalfTurns ==
    Ok("hour_angle") => Abs(result.value) <= 540 * UnitsPerDegree

C9_Witness ==
    Ok("hour_angle") /\ result.value > 360 * UnitsPerDegree

(* C10: the slew duration of transit and transit_planetary is the larger   *)
(* of the two step distances |offset + angle * steps per degree| divided   *)
(* by MAX_STEP_FREQUENCY; it does not decrease when either distance grows  *)
(* and is not the sum-based value when both distances are positive.        *)
C10_SlewIsTheLargerDistance ==
    (Ok("transit") \/ Ok("transit_planetary")) =>
        LET planetary == op = "transit_planetary"
            stp_ra == IF planetary THEN args[2] ELSE args[3]
            stp_dec == IF planetary THEN args[3] ELSE args[4]
            dec == IF planetary THEN result.cur_dec ELSE args[2]
            d_ra == Abs(stp_ra + RaSteps(result.cur_ha))
            d_dec == Abs(stp_dec + DecSteps(dec))
            larger == IF d_ra >= d_dec THEN d_ra ELSE d_dec
            slew(a, b) == max_move_time(max_distance(a, b))
        IN  /\ result.step_distance_ra = d_ra
            /\ result.step_distance_dec = d_dec
            /\ result.max_move_time * MAX_STEP_FREQUENCY = larger * TicksPerSecond
            /\ (d_ra > 0 /\ d_dec > 0) =>
                   result.max_move_time * MAX_STEP_FREQUENCY
                       # (d_ra + d_dec) * TicksPerSecond
            /\ \A e \in {1, 1000, 500000} :
                   /\ slew(d_ra + e, d_dec) >= result.max_move_time
                   /\ slew(d_ra, d_dec + e) >= result.max_move_time

C10_Witness ==
    /\ Ok("transit")
    /\ result.step_distance_ra > 0
    /\ result.step_distance_dec > result.step_distance_ra
    /\ result.max_move_time * MAX_STEP_FREQUENCY
           = result.step_distance_dec * TicksPerSecond

C12_HourAngleToRaInvertsHourAngle ==
    Ok("hour_angle_to_ra") =>
        LET d == (result.value - result.object_ra) % FullCircle
        IN  d <= 1 \/ FullCircle - d <= 1

(* Reading a raw grid: the primary axis is the one the inner loop moves    *)
(* along, a row is a run of points with one secondary coordinate.          *)
PrimaryAxis(r) == IF r.second_axis THEN 2 ELSE 1

Sign(x) == IF x > 0 THEN 1 ELSE IF x < 0 THEN -1 ELSE 0

RowOf(raw, q, k) == Cardinality({ j \in 1..(k - 1) : raw[j + 1][q] # raw[j][q] })

InRowMoves(raw, q) == { k \in 1..(Len(raw) - 1) : raw[k + 1][q] = raw[k][q] }

(* C13: in the grid of scanning_map_generator the secondary coordinate     *)
(* changes monotonically from row to row, the fill direction along the     *)
(* primary axis is one direction within a row and the opposite one in the  *)
(* next row, and the first row starts at the initial corner and moves      *)
(* toward the second corner.                                               *)
C13_GridIsSerpentine ==
    Ok("scanning_map_generator") =>
        LET raw == result.value[2]
            p == PrimaryAxis(result)
            q == 3 - p
            n == Len(raw)
            dir(k) == Sign(raw[k + 1][p] - raw[k][p])
            toward == Sign(result.second_point[p] - result.initial_point[p])
        IN  /\ raw[1] = result.initial_point
            /\ \/ \A k \in 1..(n - 1) : raw[k + 1][q] <= raw[k][q]
               \/ \A k \in 1..(n - 1) : raw[k + 1][q] >= raw[k][q]
            /\ \A k \in InRowMoves(raw, q) : dir(k) # 0
            /\ \A k, l \in InRowMoves(raw, q) :
                   /\ RowOf(raw, q, k) = RowOf(raw, q, l) => dir(k) = dir(l)
                   /\ RowOf(raw, q, l) = RowOf(raw, q, k) + 1 => dir(l) = -dir(k)
            /\ n > 1 =>
                   /\ 1 \in InRowMoves(raw, q)
                   /\ toward # 0 => dir(1) = toward

C13_Witness ==
    /\ Ok("scanning_map_generator")
    /\ args[3] = "L-Down"
    /\ result.num_boxes_x = MaxCells
    /\ result.num_boxes_y >= 3
    /\ LET raw == result.value[2]
       IN  /\ Len(raw) = 1 + result.num_boxes_x * result.num_boxes_y
           /\ raw[2][1] < raw[1][1]
           /\ raw[MaxCells + 3][1] > raw[MaxCells + 2][1]
           /\ raw[MaxCells + 3][2] < raw[1][2]
           /\ raw[2 * MaxCells + 3][1] < raw[2 * MaxCells + 2][1]

(* C14: the planner makes one predictor call per grid point, in grid       *)
(* order; the first call gets the initial offsets, the call for every      *)
(* point between the first and the last gets the offsets of the call       *)
(* before, each raised by step size times steps per degree of its axis     *)
(* when the point and the next one differ on that axis, and the call for   *)
(* the last point gets the offsets of the call before it.                  *)
C14_PlannerOffsetsLookAhead ==
    Ok("scanning_point_calculator") =>
        LET g == args[1]
            N == Len(g)
            c == result.calls
            ra_incr == (args[3][1] * MOTOR_RA_STEPS_PER_DEGREE) \div UnitsPerDegree
            dec_incr == (args[3][2] * MOTOR_DEC_STEPS_PER_DEGREE) \div UnitsPerDegree
        IN  /\ Len(c) = N
            /\ Len(result.value[1]) = N
            /\ \A k \in 1..N :
                   /\ c[k].point = k
                   /\ args[5] = NoBody => result.value[1][k][2] = g[k][2]
            /\ c[1].stp_ra = args[2][1]
            /\ c[1].stp_dec = args[2][2]
            /\ \A k \in 2..(N - 1) :
                   /\ c[k].stp_ra = c[k - 1].stp_ra
                          + (IF g[k][1] # g[k + 1][1] THEN ra_incr ELSE 0)
                   /\ c[k].stp_dec = c[k - 1].stp_dec
                          + (IF g[k][2] # g[k + 1][2] THEN dec_incr ELSE 0)
            /\ N >= 2 =>
                   /\ c[N].stp_ra = c[N - 1].stp_ra
                   /\ c[N].stp_dec = c[N - 1].stp_dec

C14_Witness ==
    /\ Ok("scanning_point_calculator")
    /\ args[5] = NoBody
    /\ Len(result.calls) = 5
    /\ result.calls[2].stp_ra > result.calls[1].stp_ra
    /\ result.calls[2].stp_dec = result.calls[1].stp_dec
    /\ result.calls[3].stp_dec > result.calls[2].stp_dec
    /\ result.calls[3].stp_ra = result.calls[2].stp_ra
    /\ result.calls[5].stp_ra = result.calls[4].stp_ra
    /\ args[1][5] # args[1][4]

(* C15: any two consecutive raw points of the grid, the last point of a    *)
(* row and the first of the next included, differ on exactly one axis and  *)
(* by exactly the step size of that axis, and no raw point occurs twice.   *)
C15_ConsecutivePointsOneStepApart ==
    Ok("scanning_map_generator") =>
        LET raw == result.value[2]
            n == Len(raw)
            step_size == args[2]
        IN  /\ \A k \in 1..(n - 1) :
                   LET dx == raw[k + 1][1] - raw[k][1]
                       dy == raw[k + 1][2] - raw[k][2]
                   IN  \/ dy = 0 /\ Abs(dx) = step_size[1] /\ dx # 0
                       \/ dx = 0 /\ Abs(dy) = step_size[2] /\ dy # 0
            /\ \A k, l \in 1..n : k # l => raw[k] # raw[l]

C15_Witness ==
    /\ Ok("scanning_map_generator")
    /\ args[3] = "R-Down"
    /\ result.num_boxes_x = 2
    /\ result.num_boxes_y = MaxCells
    /\ LET raw == result.value[2]
       IN  /\ Len(raw) = 1 + 2 * MaxCells
           /\ raw[2][1] = raw[1][1] + args[2][1]
           /\ raw[4] = <<raw[3][1], raw[3][2] - args[2][2]>>
           /\ raw[5][1] = raw[4][1] - args[2][1]
           /\ raw[6] = <<raw[5][1], raw[5][2] - args[2][2]>>

(* C16: no operation changes the observer: its date is after every step    *)
(* what it was before the step.                                            *)
C16_ObserverIsNeverWritten == [][observer_date' = observer_date]_vars

(* C17: for each of the 8 directions, an axis-aligned box and positive     *)
(* step sizes, both coordinates of every raw point lie between the least   *)
(* and the greatest value the four corners have on that axis.              *)
C17_RawPointsInsideTheBox ==
    (Ok("scanning_map_generator") /\ args[3] \in Directions
        /\ AxisAligned(args[1]) /\ args[2][1] > 0 /\ args[2][2] > 0) =>
        LET box == args[1]
            raw == result.value[2]
            inside(v, axis) ==
                /\ \E c \in 1..4 : box[c][axis] <= v
                /\ \E c \in 1..4 : box[c][axis] >= v
        IN  \A k \in 1..Len(raw) : inside(raw[k][1], 1) /\ inside(raw[k][2], 2)

====
